---- MODULE Spec2Model ----
(***************************************************************************)
(* Model of the geofence / speed-alert logic of DriverDashboard            *)
(* (src/dashboard.js): zone detection, threshold derivation, the speed     *)
(* classification shown in the status card, the speed-warning modal with   *)
(* its cooldown and its auto-dismiss timers; and of the page around it:    *)
(* notifications, the emergency report and the activity feed.              *)
(*                                                                         *)
(* Time is in milliseconds.  The page is single threaded: every callback   *)
(* runs to completion, so every action below is one whole callback.        *)
(* Timers (setInterval / setTimeout) fire at the instant they are due; the *)
(* clock only moves from one due instant to the next, and callbacks due at *)
(* the same instant run in any order.  User input (acknowledge) and        *)
(* geolocation fixes arrive at any time.                                   *)
(*                                                                         *)
(* Coordinates are in micro-degrees, distances in whole decimetres         *)
(* (rounded down), so that `distance < radius' is decided exactly as for   *)
(* the real-valued distance.                                               *)
(***************************************************************************)
EXTENDS Integers, Sequences, FiniteSets, TLC

VARIABLES
    now,                 \* Date.now(): the clock, ms
    currentLocation,     \* this.currentLocation: NoLocation or [lat, lng]
    speedThreshold,      \* this.speedThreshold, km/h
    currentSpeed,        \* this.currentSpeed, km/h
    isInDangerZone,      \* this.isInDangerZone
    lastSpeedWarning,    \* this.lastSpeedWarning, ms
    modalShown,          \* #speedWarningModal has class 'show'
    speedWarningMessage, \* #speedWarningMessage text: NoMessage or [danger, speed, limit]
    speedStatus,         \* #speedStatus text
    zoneType,            \* #zoneType text
    dismissTimers,       \* pending auto-hide setTimeout callbacks: their due times, oldest first
    nextSpeedAt,         \* next firing of the 3000 ms speed interval
    nextCheckAt,         \* next firing of the 5000 ms checkSpeed interval
    raisedAt,            \* history: time of the latest hidden -> shown transition of the modal
    lastOp,              \* history: the callback that ran last
    rearmedAfter,        \* history: the callback that ran just before the latest checkSpeed
                         \*          that raised a warning again (lastSpeedWarning was set)
    prevWarning,         \* history: lastSpeedWarning before the latest checkSpeed that raised
    checkRaisedAt,       \* history: time of the latest checkSpeed that raised
    notifications,       \* children of #notificationContainer, oldest first
    notifTimers,         \* pending setTimeout callbacks of showNotification: [id, due, stage]
    notifCount,          \* number of notifications created so far (names the next one)
    emergencyReported,   \* this.emergencyReported
    emergencyModalShown, \* #emergencyModal has class 'show'
    emergencyAnnounced,  \* history: reportEmergency got as far as its notification and activity
    thrown,              \* history: the errors thrown out of callbacks so far
    activities,          \* children of #activitiesList, first child first
    activityTimers,      \* pending setTimeout callbacks of the DOMContentLoaded handler: [due, type]
    activityCount,       \* number of addActivity calls so far (names the next entry)
    dashboardReady       \* window.dashboard is set (the DOMContentLoaded handler has run)

vars == <<now, currentLocation, speedThreshold, currentSpeed, isInDangerZone,
          lastSpeedWarning, modalShown, speedWarningMessage, speedStatus,
          zoneType, dismissTimers, nextSpeedAt, nextCheckAt, raisedAt,
          lastOp, rearmedAfter, prevWarning, checkRaisedAt,
          notifications, notifTimers, notifCount, emergencyReported,
          emergencyModalShown, emergencyAnnounced, thrown, activities,
          activityTimers, activityCount, dashboardReady>>

\* The state of the speed monitor, its timers and its history.
monitorVars == <<currentLocation, speedThreshold, currentSpeed, isInDangerZone,
                 lastSpeedWarning, modalShown, speedWarningMessage,
                 speedStatus, zoneType, dismissTimers, nextSpeedAt,
                 nextCheckAt, raisedAt, rearmedAfter, prevWarning,
                 checkRaisedAt>>

\* The state outside the speed monitor: notifications, emergency modal,
\* activity feed.
pageVars == <<notifications, notifTimers, notifCount, emergencyReported,
              emergencyModalShown, emergencyAnnounced, thrown, activities,
              activityTimers, activityCount>>

-----------------------------------------------------------------------------
(* Bounds of the model *)

\* Date.now() when the page is constructed (stands for an epoch-scale value:
\* any real clock reading is far more than the cooldown away from 0).
LoadTime == 50000

\* The run is followed for this many ms after construction.
Horizon == 40000

\* The run of SampleSpec is followed for this many ms after construction:
\* one speed sample (at 3000 ms) and one checkSpeed (at 5000 ms).
SampleHorizon == 5000

\* The run of ScenarioSpec is followed until the clock reads this: the first
\* checkSpeed more than one cooldown after clock reading 0 is at 35000.
ScenarioHorizon == 36000

\* The run of PageSpec is followed for this many ms after construction.
PageHorizon == 8000

\* At most this many notifications are created in a run.
MaxNotifications == 2

\* The static markup of #activitiesList holds at most this many entries.
MaxInitialActivities == 7

\* At most this many addActivity calls are followed in ActivitySpec.
MaxActivityCalls == 6

\* Speed samples: Math.floor(Math.random() * 80) + 20 is in MinSpeed..MaxSpeed.
MinSpeed == 20
MaxSpeed == 99

\* The samples of the long run: under every limit, over the zone limits only,
\* over every limit.
Speeds == {20, 40, 99}

\* The sample of the scenario run: over the School Zone limit only.
ScenarioSpeed == 40

\* The samples of the short run: every value the simulation can produce.
SampleSpeeds == MinSpeed..MaxSpeed

-----------------------------------------------------------------------------
(* Program constants *)

DefaultLimit == 60
SchoolLimit == 25
ConstructionLimit == 30
SchoolRadius == 2000          \* 0.2 km, in dm
ConstructionRadius == 1500    \* 0.15 km, in dm
warningCooldown == 30000
AutoHideDelay == 10000
SpeedInterval == 3000
CheckInterval == 5000

DefaultNotificationDuration == 5000     \* line 417
EmergencyNotificationDuration == 8000   \* line 466
SlideOutDelay == 300                    \* line 434
MaxActivities == 5                      \* line 510
FirstSampleActivityDelay == 2000        \* line 586
SecondSampleActivityDelay == 4000       \* line 590

\* The methods of class DriverDashboard (lines 2-514).  closeEmergencyModal,
\* openEmergencyModal, reportEmergency (the dispatcher) and
\* acknowledgeSpeedWarning of lines 517-533 are global functions, not methods.
DashboardMethods ==
    { "constructor", "init", "initMap", "addSampleRoute", "addDangerZones",
      "startLocationTracking", "updateLocation", "checkDangerZones",
      "calculateDistance", "startSpeedMonitoring", "updateSpeedDisplay",
      "checkSpeed", "showSpeedWarning", "updateZoneAlert", "loadDriverData",
      "calculateExperience", "calculateMileage", "getFuelEfficiency",
      "getFuelType", "updateDriverInfo", "updateDashboardData",
      "getCurrentDriverData", "updateLastUpdated", "showNotification",
      "getNotificationIcon", "reportEmergency", "addActivity" }

\* The keys of emergencyTypes (lines 452-458) and one that is not a key.
EmergencyTypes ==
    {"accident", "breakdown", "medical", "security", "other", "fire"}

\* The types passed to addActivity (lines 469, 585, 589).
ActivityTypes == {"emergency", "delivered", "pickup"}

schoolZoneCenter == [lat |-> 28618000, lng |-> 77211000]
constructionZoneCenter == [lat |-> 28622000, lng |-> 77213000]

NoLocation == [lat |-> 0, lng |-> 0, none |-> TRUE]
NoMessage == [danger |-> FALSE, speed |-> 0, limit |-> 0]
NoRaise == 0 - 1

\* initMap's default centre, in no zone
defaultCenter == [lat |-> 28613900, lng |-> 77209000]

\* Position fixes delivered by the geolocation watcher in the long run.
Positions == {defaultCenter, schoolZoneCenter}

\* Position fixes of the short run: also just inside and just on each radius.
SamplePositions ==
    { defaultCenter,
      schoolZoneCenter,
      [lat |-> 28619798, lng |-> 77211000],    \* 199.9 m north of the school centre
      [lat |-> 28619799, lng |-> 77211000],    \* 200.0 m north of the school centre
      constructionZoneCenter,
      [lat |-> 28623348, lng |-> 77213000],    \* 149.9 m north of the construction centre
      [lat |-> 28623349, lng |-> 77213000],    \* 150.0 m north of the construction centre
      [lat |-> 28619900, lng |-> 77212000] }   \* on the route between the zones

-----------------------------------------------------------------------------
(* Pure functions *)

Abs(x) == IF x < 0 THEN -x ELSE x

RECURSIVE SqrtIter(_, _, _)
SqrtIter(n, lo, hi) ==
    IF lo >= hi THEN lo
    ELSE LET mid == (lo + hi + 1) \div 2
         IN  IF mid * mid <= n THEN SqrtIter(n, mid, hi)
                               ELSE SqrtIter(n, lo, mid - 1)

\* floor of the square root
Isqrt(n) == SqrtIter(n, 0, 46340)

\* Great-circle distance in dm, rounded down.  R * pi / 180 = 111.195 km per
\* degree of latitude; along a parallel this is scaled by
\* cos(lat1) * cos(lat2) under the root, i.e. by cos(28.62 deg) = 0.87781 at
\* the latitude of the zones.  Below one kilometre the haversine formula and
\* this planar form agree to well under a decimetre.
calculateDistance(lat1, lng1, lat2, lng2) ==
    LET dLat == (Abs(lat2 - lat1) * 111195) \div 100000
        dLng == (Abs(lng2 - lng1) * 97609) \div 100000
    IN  Isqrt(dLat * dLat + dLng * dLng)

\* Mutant of SpeedStatusOf: the limit itself already counts as overspeed.
SpeedStatusOfGe(s, T) ==
    IF s >= T THEN "Overspeed"
    ELSE IF s * 10 > T * 9 THEN "Warning"
    ELSE "Normal"

\* The three-way branch of updateSpeedDisplay; s > T * 0.9 is s * 10 > T * 9
\* (T * 0.9 is exact in floating point for T = 25, 30, 60).
SpeedStatusOf(s, T) ==
    IF s > T THEN "Overspeed"
    ELSE IF s * 10 > T * 9 THEN "Warning"
    ELSE "Normal"

MessageOf(danger, s, T) == [danger |-> danger, speed |-> s, limit |-> T]

-----------------------------------------------------------------------------
\* new DriverDashboard() at clock reading t0: the constructor and init().
InitAt(t0) ==
    /\ now = t0
    /\ currentLocation = NoLocation
    /\ speedThreshold = DefaultLimit
    /\ currentSpeed = 0
    /\ isInDangerZone = FALSE
    /\ lastSpeedWarning = 0
    /\ modalShown = FALSE
    /\ speedWarningMessage = NoMessage
    /\ speedStatus = "unset"
    /\ zoneType = "unset"
    /\ dismissTimers = <<>>
    /\ nextSpeedAt = t0 + SpeedInterval
    /\ nextCheckAt = t0 + CheckInterval
    /\ raisedAt = NoRaise
    /\ lastOp = "constructor"
    /\ rearmedAfter = "none"
    /\ prevWarning = 0
    /\ checkRaisedAt = NoRaise
    /\ notifications = <<>>
    /\ notifTimers = {}
    /\ notifCount = 0
    /\ emergencyReported = FALSE
    /\ emergencyModalShown = FALSE
    /\ emergencyAnnounced = FALSE
    /\ thrown = {}
    /\ activityCount = 0

\* new DriverDashboard() alone: an empty activity feed and no page timers.
Init ==
    /\ InitAt(LoadTime)
    /\ dashboardReady = TRUE
    /\ activities = <<>>
    /\ activityTimers = {}

-----------------------------------------------------------------------------
(* Helpers of the actions *)

Min(S) == CHOOSE x \in S : \A y \in S : x <= y

\* The instants at which some timer is due.
DueTimes ==
    {nextSpeedAt, nextCheckAt}
        \cup {dismissTimers[i] : i \in 1..Len(dismissTimers)}
        \cup {t.due : t \in notifTimers}
        \cup {t.due : t \in activityTimers}

Ran(op) == lastOp' = op

\* Mutant of InSchoolZone: the radius itself counts as inside.
InSchoolZoneLe(d) == d <= SchoolRadius

\* line 142: within 200 m of the school zone centre
InSchoolZone(d) == d < SchoolRadius

\* Mutant of InConstructionZone: the radius itself counts as inside.
InConstructionZoneLe(d) == d <= ConstructionRadius

\* line 150: within 150 m of the construction zone centre
InConstructionZone(d) == d < ConstructionRadius

\* Mutant of CooldownElapsed: a warning exactly one cooldown later is let through.
CooldownElapsedGe(t, last) == (t - last) >= warningCooldown

\* line 205: the cooldown test of checkSpeed
CooldownElapsed(t, last) == (t - last) > warningCooldown

\* Mutant of AutoHideDue: the timer is set one speed interval too late.
AutoHideDueLate(t) == t + AutoHideDelay + SpeedInterval

\* line 224: the due time of the auto-hide timer set by showSpeedWarning
AutoHideDue(t) == t + AutoHideDelay

\* showSpeedWarning(): writes the message, shows the modal and sets a 10 s
\* timer that hides it.  Nothing cancels an earlier timer.  `speed' is
\* this.currentSpeed at the call.
showSpeedWarning(speed) ==
    /\ speedWarningMessage' = MessageOf(isInDangerZone, speed, speedThreshold)
    /\ modalShown' = TRUE
    /\ dismissTimers' = Append(dismissTimers, AutoHideDue(now))
    /\ raisedAt' = IF modalShown THEN raisedAt ELSE now

\* The modal and its timers left alone.
ModalUnchanged ==
    UNCHANGED <<speedWarningMessage, modalShown, dismissTimers, raisedAt>>

\* Mutant of updateSpeedDisplay: the sample is classified against the default
\* limit instead of the threshold of the zone.
updateSpeedDisplayDefaultLimit(s) ==
    /\ speedStatus' = SpeedStatusOf(s, DefaultLimit)
    /\ IF SpeedStatusOf(s, DefaultLimit) = "Overspeed"
       THEN showSpeedWarning(s)
       ELSE ModalUnchanged

\* Mutant of updateSpeedDisplay: an overspeed sample shows the warning only
\* once the cooldown of checkSpeed has elapsed.
updateSpeedDisplayAfterCooldown(s) ==
    /\ speedStatus' = SpeedStatusOf(s, speedThreshold)
    /\ IF /\ SpeedStatusOf(s, speedThreshold) = "Overspeed"
          /\ CooldownElapsed(now, lastSpeedWarning)
       THEN showSpeedWarning(s)
       ELSE ModalUnchanged

\* updateSpeedDisplay(): shows the status of this.currentSpeed (already set
\* by the caller to s) and, on overspeed, calls showSpeedWarning.
updateSpeedDisplay(s) ==
    /\ speedStatus' = SpeedStatusOf(s, speedThreshold)
    /\ IF SpeedStatusOf(s, speedThreshold) = "Overspeed"
       THEN showSpeedWarning(s)
       ELSE ModalUnchanged

\* Mutant of checkSpeed: the time of the check is recorded even when the
\* check declines.
checkSpeedStampsAlways ==
    IF /\ currentSpeed > speedThreshold
       /\ ~modalShown
       /\ CooldownElapsed(now, lastSpeedWarning)
    THEN /\ showSpeedWarning(currentSpeed)
         /\ lastSpeedWarning' = now
         /\ rearmedAfter' = IF lastSpeedWarning > 0 THEN lastOp ELSE rearmedAfter
         /\ prevWarning' = lastSpeedWarning
         /\ checkRaisedAt' = now
    ELSE /\ ModalUnchanged
         /\ lastSpeedWarning' = now
         /\ UNCHANGED <<rearmedAfter, prevWarning, checkRaisedAt>>

\* checkSpeed()
checkSpeed ==
    IF /\ currentSpeed > speedThreshold
       /\ ~modalShown
       /\ CooldownElapsed(now, lastSpeedWarning)
    THEN /\ showSpeedWarning(currentSpeed)
         /\ lastSpeedWarning' = now
         /\ rearmedAfter' = IF lastSpeedWarning > 0 THEN lastOp ELSE rearmedAfter
         /\ prevWarning' = lastSpeedWarning
         /\ checkRaisedAt' = now
    ELSE /\ ModalUnchanged
         /\ UNCHANGED <<lastSpeedWarning, rearmedAfter, prevWarning,
                        checkRaisedAt>>

\* Mutant of checkDangerZones: outside every zone nothing is reset.
checkDangerZonesSticky(lat, lng) ==
    LET schoolDistance ==
            calculateDistance(lat, lng, schoolZoneCenter.lat, schoolZoneCenter.lng)
        constructionDistance ==
            calculateDistance(lat, lng, constructionZoneCenter.lat,
                              constructionZoneCenter.lng)
    IN  IF InSchoolZone(schoolDistance)
        THEN /\ isInDangerZone' = TRUE
             /\ speedThreshold' = SchoolLimit
             /\ zoneType' = "School Zone"
        ELSE IF InConstructionZone(constructionDistance)
        THEN /\ isInDangerZone' = TRUE
             /\ speedThreshold' = ConstructionLimit
             /\ zoneType' = "Construction Zone"
        ELSE UNCHANGED <<isInDangerZone, speedThreshold, zoneType>>

\* checkDangerZones(lat, lng)
checkDangerZones(lat, lng) ==
    LET schoolDistance ==
            calculateDistance(lat, lng, schoolZoneCenter.lat, schoolZoneCenter.lng)
        constructionDistance ==
            calculateDistance(lat, lng, constructionZoneCenter.lat,
                              constructionZoneCenter.lng)
    IN  IF InSchoolZone(schoolDistance)
        THEN /\ isInDangerZone' = TRUE
             /\ speedThreshold' = SchoolLimit
             /\ zoneType' = "School Zone"
        ELSE IF InConstructionZone(constructionDistance)
        THEN /\ isInDangerZone' = TRUE
             /\ speedThreshold' = ConstructionLimit
             /\ zoneType' = "Construction Zone"
        ELSE /\ isInDangerZone' = FALSE
             /\ speedThreshold' = DefaultLimit
             /\ zoneType' = "Normal Zone"

-----------------------------------------------------------------------------
(* Notifications, lines 417-436 *)

\* Mutant of RemovalDue: the element is removed as soon as it starts to slide.
RemovalDueAtSlideOut(t) == t

\* line 432-434: the inner timer, set when the slide-out animation starts
RemovalDue(t) == t + SlideOutDelay

\* showNotification(message, type, duration): appends a new element to the
\* container and sets the timer that starts its slide-out.  The fields added
\* and duration are history: the element itself does not carry them.
showNotification(message, type, duration) ==
    /\ notifications' =
           Append(notifications,
                  [id |-> notifCount + 1, message |-> message, type |-> type,
                   sliding |-> FALSE, added |-> now, duration |-> duration])
    /\ notifTimers' =
           notifTimers \cup {[id |-> notifCount + 1, due |-> now + duration,
                              stage |-> "slideOut"]}
    /\ notifCount' = notifCount + 1

NotificationsUnchanged == UNCHANGED <<notifications, notifTimers, notifCount>>

\* The elements of the container.
InContainer == {notifications[i] : i \in 1..Len(notifications)}

\* The container without the element named id.
WithoutNotification(id) ==
    SelectSeq(notifications, LAMBDA n : n.id # id)

\* The container with the slide-out animation set on the element named id.
WithSlideOut(id) ==
    [i \in 1..Len(notifications) |->
        IF notifications[i].id = id
        THEN [notifications[i] EXCEPT !.sliding = TRUE]
        ELSE notifications[i]]

-----------------------------------------------------------------------------
(* Activity feed, lines 481-513 *)

\* lines 510-512: the last child is removed while more than 5 are left
RECURSIVE KeepLastFive(_)
KeepLastFive(list) ==
    IF Len(list) > MaxActivities
    THEN KeepLastFive(SubSeq(list, 1, Len(list) - 1))
    ELSE list

\* Mutant of addActivity: the list is trimmed from the front.
addActivityDropsNewest(type, title) ==
    LET item == [type |-> type, title |-> title, n |-> activityCount + 1]
        list == <<item>> \o activities
    IN  /\ activities' =
              IF Len(list) > MaxActivities
              THEN SubSeq(list, Len(list) - MaxActivities + 1, Len(list))
              ELSE list
        /\ activityCount' = activityCount + 1

\* addActivity(type, title, details): a new first child, then the trim.  The
\* field n tells the elements apart (each call creates a new element).
addActivity(type, title) ==
    LET item == [type |-> type, title |-> title, n |-> activityCount + 1]
    IN  /\ activities' = KeepLastFive(<<item>> \o activities)
        /\ activityCount' = activityCount + 1

\* line 461: emergencyTypes[type] || 'Emergency'
EmergencyTypeName(type) ==
    CASE type = "accident" -> "Vehicle Accident"
      [] type = "breakdown" -> "Vehicle Breakdown"
      [] type = "medical" -> "Medical Emergency"
      [] type = "security" -> "Security Issue"
      [] type = "other" -> "General Emergency"
      [] OTHER -> "Emergency"

\* The method reportEmergency(type), lines 449-479.  A call of a property
\* that is not a method of the object throws a TypeError, which ends the
\* callback where it stands.
reportEmergency(type) ==
    /\ emergencyReported' = TRUE
    /\ IF "closeEmergencyModal" \in DashboardMethods
       THEN /\ emergencyModalShown' = FALSE
            /\ showNotification(<<EmergencyTypeName(type), "reported">>,
                                "success", EmergencyNotificationDuration)
            /\ addActivity("emergency", EmergencyTypeName(type))
            /\ emergencyAnnounced' = TRUE
            /\ UNCHANGED thrown
       ELSE /\ thrown' = thrown \cup {"TypeError"}
            /\ NotificationsUnchanged
            /\ UNCHANGED <<emergencyModalShown, emergencyAnnounced,
                           activities, activityCount>>

-----------------------------------------------------------------------------
(* Actions: one per callback *)

\* The 3000 ms interval of startSpeedMonitoring: a new random sample.
SpeedTick(s) ==
    /\ now = nextSpeedAt
    /\ currentSpeed' = s
    /\ updateSpeedDisplay(s)
    /\ nextSpeedAt' = nextSpeedAt + SpeedInterval
    /\ Ran("updateSpeedDisplay")
    /\ UNCHANGED dashboardReady
    /\ UNCHANGED pageVars
    /\ UNCHANGED <<now, currentLocation, speedThreshold, isInDangerZone,
                   lastSpeedWarning, zoneType, nextCheckAt, rearmedAfter,
                   prevWarning, checkRaisedAt>>

\* The 5000 ms interval of init: checkSpeed.
CheckTick ==
    /\ now = nextCheckAt
    /\ checkSpeed
    /\ nextCheckAt' = nextCheckAt + CheckInterval
    /\ Ran("checkSpeed")
    /\ UNCHANGED dashboardReady
    /\ UNCHANGED pageVars
    /\ UNCHANGED <<now, currentLocation, speedThreshold, currentSpeed,
                   isInDangerZone, speedStatus, zoneType, nextSpeedAt>>

\* The success callback of watchPosition: updateLocation(lat, lng).
PositionUpdate(p) ==
    /\ currentLocation' = p
    /\ checkDangerZones(p.lat, p.lng)
    /\ Ran("updateLocation")
    /\ UNCHANGED dashboardReady
    /\ UNCHANGED pageVars
    /\ UNCHANGED <<now, currentSpeed, lastSpeedWarning, modalShown,
                   speedWarningMessage, speedStatus, dismissTimers,
                   nextSpeedAt, nextCheckAt, raisedAt, rearmedAfter,
                   prevWarning, checkRaisedAt>>

\* Mutant of Acknowledge: acknowledging forgets the last warning time.
AcknowledgeClearsCooldown ==
    /\ modalShown' = FALSE
    /\ lastSpeedWarning' = 0
    /\ Ran("acknowledgeSpeedWarning")
    /\ UNCHANGED dashboardReady
    /\ UNCHANGED pageVars
    /\ UNCHANGED <<now, currentLocation, speedThreshold, currentSpeed,
                   isInDangerZone, speedWarningMessage, speedStatus, zoneType,
                   dismissTimers, nextSpeedAt, nextCheckAt, raisedAt,
                   rearmedAfter, prevWarning, checkRaisedAt>>

\* Mutant of Acknowledge: acknowledging restarts the cooldown.
AcknowledgeRestartsCooldown ==
    /\ modalShown' = FALSE
    /\ lastSpeedWarning' = now
    /\ Ran("acknowledgeSpeedWarning")
    /\ UNCHANGED dashboardReady
    /\ UNCHANGED pageVars
    /\ UNCHANGED <<now, currentLocation, speedThreshold, currentSpeed,
                   isInDangerZone, speedWarningMessage, speedStatus, zoneType,
                   dismissTimers, nextSpeedAt, nextCheckAt, raisedAt,
                   rearmedAfter, prevWarning, checkRaisedAt>>

\* The global acknowledgeSpeedWarning(), bound to the modal's button.
Acknowledge ==
    /\ modalShown' = FALSE
    /\ Ran("acknowledgeSpeedWarning")
    /\ UNCHANGED dashboardReady
    /\ UNCHANGED pageVars
    /\ UNCHANGED <<now, currentLocation, speedThreshold, currentSpeed,
                   isInDangerZone, lastSpeedWarning, speedWarningMessage,
                   speedStatus, zoneType, dismissTimers, nextSpeedAt,
                   nextCheckAt, raisedAt, rearmedAfter, prevWarning,
                   checkRaisedAt>>

\* The callback of the oldest pending auto-hide timer, lines 224-228.
AutoDismiss ==
    /\ dismissTimers # <<>>
    /\ Head(dismissTimers) = now
    /\ modalShown' = FALSE
    /\ dismissTimers' = Tail(dismissTimers)
    /\ Ran("autoDismiss")
    /\ UNCHANGED dashboardReady
    /\ UNCHANGED pageVars
    /\ UNCHANGED <<now, currentLocation, speedThreshold, currentSpeed,
                   isInDangerZone, lastSpeedWarning, speedWarningMessage,
                   speedStatus, zoneType, nextSpeedAt, nextCheckAt, raisedAt,
                   rearmedAfter, prevWarning, checkRaisedAt>>

-----------------------------------------------------------------------------
(* Actions outside the speed monitor *)

EmergencyUnchanged ==
    UNCHANGED <<emergencyReported, emergencyModalShown, emergencyAnnounced,
                thrown>>

ActivitiesUnchanged == UNCHANGED <<activities, activityTimers, activityCount>>

\* Mutant of PositionError: an unavailable position also forgets the last fix.
PositionErrorForgetsFix ==
    /\ notifCount < MaxNotifications
    /\ showNotification("Location tracking unavailable", "warning",
                        DefaultNotificationDuration)
    /\ currentLocation' = NoLocation
    /\ Ran("locationError")
    /\ UNCHANGED dashboardReady
    /\ EmergencyUnchanged
    /\ ActivitiesUnchanged
    /\ UNCHANGED <<now, speedThreshold, currentSpeed, isInDangerZone,
                   lastSpeedWarning, modalShown, speedWarningMessage,
                   speedStatus, zoneType, dismissTimers, nextSpeedAt,
                   nextCheckAt, raisedAt, rearmedAfter, prevWarning,
                   checkRaisedAt>>

\* The error callback of watchPosition, lines 112-115.
PositionError ==
    /\ notifCount < MaxNotifications
    /\ showNotification("Location tracking unavailable", "warning",
                        DefaultNotificationDuration)
    /\ Ran("locationError")
    /\ UNCHANGED dashboardReady
    /\ EmergencyUnchanged
    /\ ActivitiesUnchanged
    /\ UNCHANGED now
    /\ UNCHANGED monitorVars

\* The global toggleTraffic(), lines 561-563.
ToggleTraffic ==
    /\ notifCount < MaxNotifications
    /\ showNotification("Traffic layer toggled", "info",
                        DefaultNotificationDuration)
    /\ Ran("toggleTraffic")
    /\ UNCHANGED dashboardReady
    /\ EmergencyUnchanged
    /\ ActivitiesUnchanged
    /\ UNCHANGED now
    /\ UNCHANGED monitorVars

\* The outer timer of showNotification, lines 430-435: the slide-out starts
\* and the inner timer is set.
NotificationSlideOut ==
    \E t \in notifTimers :
        /\ t.stage = "slideOut"
        /\ t.due = now
        /\ notifications' = WithSlideOut(t.id)
        /\ notifTimers' =
               (notifTimers \ {t})
                   \cup {[id |-> t.id, due |-> RemovalDue(now), stage |-> "remove"]}
        /\ Ran("notificationSlideOut")
        /\ UNCHANGED dashboardReady
        /\ EmergencyUnchanged
        /\ ActivitiesUnchanged
        /\ UNCHANGED <<now, notifCount>>
        /\ UNCHANGED monitorVars

\* The inner timer of showNotification, lines 432-434: removeChild throws a
\* NotFoundError when the element is not a child of the container.
NotificationRemove ==
    \E t \in notifTimers :
        /\ t.stage = "remove"
        /\ t.due = now
        /\ IF \E n \in InContainer : n.id = t.id
           THEN /\ notifications' = WithoutNotification(t.id)
                /\ UNCHANGED thrown
           ELSE /\ thrown' = thrown \cup {"NotFoundError"}
                /\ UNCHANGED notifications
        /\ notifTimers' = notifTimers \ {t}
        /\ Ran("notificationRemove")
        /\ UNCHANGED dashboardReady
        /\ ActivitiesUnchanged
        /\ UNCHANGED <<now, notifCount, emergencyReported,
                       emergencyModalShown, emergencyAnnounced>>
        /\ UNCHANGED monitorVars

\* The global openEmergencyModal(), lines 517-519 (button, Ctrl + E).
OpenEmergencyModal ==
    /\ emergencyModalShown' = TRUE
    /\ Ran("openEmergencyModal")
    /\ UNCHANGED dashboardReady
    /\ NotificationsUnchanged
    /\ ActivitiesUnchanged
    /\ UNCHANGED <<now, emergencyReported, emergencyAnnounced, thrown>>
    /\ UNCHANGED monitorVars

\* The global closeEmergencyModal(), lines 521-523.
CloseEmergencyModal ==
    /\ emergencyModalShown' = FALSE
    /\ Ran("closeEmergencyModal")
    /\ UNCHANGED dashboardReady
    /\ NotificationsUnchanged
    /\ ActivitiesUnchanged
    /\ UNCHANGED <<now, emergencyReported, emergencyAnnounced, thrown>>
    /\ UNCHANGED monitorVars

\* The global reportEmergency(type), lines 525-529: the method is called only
\* when window.dashboard is set.
ReportEmergency(type) ==
    /\ IF dashboardReady
       THEN reportEmergency(type)
       ELSE /\ NotificationsUnchanged
            /\ EmergencyUnchanged
            /\ UNCHANGED <<activities, activityCount>>
    /\ Ran("reportEmergency")
    /\ UNCHANGED dashboardReady
    /\ UNCHANGED <<now, activityTimers>>
    /\ UNCHANGED monitorVars

\* The timers of the DOMContentLoaded handler, lines 584-590.
SampleActivity ==
    \E t \in activityTimers :
        /\ t.due = now
        /\ addActivity(t.type, t.title)
        /\ activityTimers' = activityTimers \ {t}
        /\ Ran("addActivity")
        /\ UNCHANGED dashboardReady
        /\ NotificationsUnchanged
        /\ EmergencyUnchanged
        /\ UNCHANGED now
        /\ UNCHANGED monitorVars

\* A call of window.dashboard.addActivity(type, ...) with any of the types
\* of its call sites.
AddActivityCall(type) ==
    /\ activityCount < MaxActivityCalls
    /\ addActivity(type, "title")
    /\ Ran("addActivity")
    /\ UNCHANGED dashboardReady
    /\ NotificationsUnchanged
    /\ EmergencyUnchanged
    /\ UNCHANGED <<now, activityTimers>>
    /\ UNCHANGED monitorVars

\* The error of reading a property of window.dashboard while it is undefined.
UndefinedDashboard == "TypeError: window.dashboard is undefined"

\* The DOMContentLoaded handler, lines 580-591: the dashboard is constructed
\* (its fields and intervals are those of InitAt at the current clock
\* reading) and the timers of the two sample activities are set.
DOMContentLoaded ==
    /\ ~dashboardReady
    /\ dashboardReady' = TRUE
    /\ activityTimers' =
           { [due |-> now + FirstSampleActivityDelay, type |-> "delivered",
              title |-> "Delivery Completed"],
             [due |-> now + SecondSampleActivityDelay, type |-> "pickup",
              title |-> "Package Picked Up"] }
    /\ Ran("DOMContentLoaded")
    /\ NotificationsUnchanged
    /\ EmergencyUnchanged
    /\ UNCHANGED <<now, activities, activityCount>>
    /\ UNCHANGED monitorVars

\* The global centerMap(), lines 552-559 (button, Ctrl + M).  With a fix the
\* map view is moved (not part of the state); the else branch is taken both
\* without a fix and without a dashboard, and reads window.dashboard.
CenterMap ==
    /\ IF dashboardReady /\ currentLocation # NoLocation
       THEN /\ NotificationsUnchanged
            /\ UNCHANGED thrown
       ELSE IF dashboardReady
       THEN /\ notifCount < MaxNotifications
            /\ showNotification("Location not available", "warning",
                                DefaultNotificationDuration)
            /\ UNCHANGED thrown
       ELSE /\ thrown' = thrown \cup {UndefinedDashboard}
            /\ NotificationsUnchanged
    /\ Ran("centerMap")
    /\ UNCHANGED dashboardReady
    /\ ActivitiesUnchanged
    /\ UNCHANGED <<now, emergencyReported, emergencyModalShown,
                   emergencyAnnounced>>
    /\ UNCHANGED monitorVars

\* The visibilitychange handler, lines 594-603: when the page becomes visible
\* and window.dashboard is set, updateDashboardData() redraws the metrics
\* cards (not part of the state); otherwise it only logs.
VisibilityChange(hidden) ==
    /\ Ran(IF hidden THEN "visibilityHidden" ELSE "visibilityVisible")
    /\ UNCHANGED dashboardReady
    /\ NotificationsUnchanged
    /\ EmergencyUnchanged
    /\ ActivitiesUnchanged
    /\ UNCHANGED now
    /\ UNCHANGED monitorVars

\* A position fix: the watcher is started by the constructor (line 17), so
\* fixes come only once the dashboard exists.
WatchedPosition(p) ==
    /\ dashboardReady
    /\ PositionUpdate(p)

\* Time passes until the next timer is due, up to the clock reading limit.
AdvanceUntil(limit) ==
    /\ now < Min(DueTimes)
    /\ Min(DueTimes) <= limit
    /\ now' = Min(DueTimes)
    /\ UNCHANGED dashboardReady
    /\ UNCHANGED pageVars
    /\ UNCHANGED <<currentLocation, speedThreshold, currentSpeed,
                   isInDangerZone, lastSpeedWarning, modalShown,
                   speedWarningMessage, speedStatus, zoneType, dismissTimers,
                   nextSpeedAt, nextCheckAt, raisedAt, lastOp, rearmedAfter,
                   prevWarning, checkRaisedAt>>

\* Time passes until the next timer is due (the run is followed for h ms
\* after a construction at LoadTime).
Advance(h) == AdvanceUntil(LoadTime + h)

Next ==
    \/ \E s \in Speeds : SpeedTick(s)
    \/ CheckTick
    \/ \E p \in Positions : PositionUpdate(p)
    \/ Acknowledge
    \/ AutoDismiss
    \/ Advance(Horizon)

Spec == Init /\ [][Next]_vars

\* The short run: every speed sample and every position, up to the first
\* checkSpeed (no auto-hide timer is due that early).
SampleNext ==
    \/ \E s \in SampleSpeeds : SpeedTick(s)
    \/ CheckTick
    \/ \E p \in SamplePositions : PositionUpdate(p)
    \/ Acknowledge
    \/ Advance(SampleHorizon)

SampleSpec == Init /\ [][SampleNext]_vars

\* The run of a dashboard constructed while the clock reads 0 (Date.now() is
\* whatever the system clock says; a test harness with a fake clock starts
\* there).  The vehicle is at the School Zone centre and every sample is 40.
ScenarioInit ==
    /\ InitAt(0)
    /\ dashboardReady = TRUE
    /\ activities = <<>>
    /\ activityTimers = {}

ScenarioNext ==
    \/ SpeedTick(ScenarioSpeed)
    \/ CheckTick
    \/ PositionUpdate(schoolZoneCenter)
    \/ Acknowledge
    \/ AutoDismiss
    \/ AdvanceUntil(ScenarioHorizon)

ScenarioSpec == ScenarioInit /\ [][ScenarioNext]_vars

\* The page: the DOMContentLoaded handler (lines 580-591) constructs the
\* dashboard and sets the timers of the two sample activities.
PageInit ==
    /\ InitAt(LoadTime)
    /\ dashboardReady = TRUE
    /\ activities = <<>>
    /\ activityTimers =
           { [due |-> LoadTime + FirstSampleActivityDelay, type |-> "delivered",
              title |-> "Delivery Completed"],
             [due |-> LoadTime + SecondSampleActivityDelay, type |-> "pickup",
              title |-> "Package Picked Up"] }

PageNext ==
    \/ SpeedTick(ScenarioSpeed)
    \/ CheckTick
    \/ PositionUpdate(schoolZoneCenter)
    \/ PositionError
    \/ ToggleTraffic
    \/ NotificationSlideOut
    \/ NotificationRemove
    \/ OpenEmergencyModal
    \/ CloseEmergencyModal
    \/ \E type \in EmergencyTypes : ReportEmergency(type)
    \/ SampleActivity
    \/ Advance(PageHorizon)

PageSpec == PageInit /\ [][PageNext]_vars

\* The static markup of #activitiesList: any number of entries up to the
\* bound, told apart by n (negative: not created by addActivity).
InitialFeeds ==
    { [i \in 1..k |-> [type |-> "static", title |-> "static", n |-> 0 - i]] :
        k \in 0..MaxInitialActivities }

\* addActivity applied to any feed, in any sequence of types.
ActivityInit ==
    /\ InitAt(LoadTime)
    /\ dashboardReady = TRUE
    /\ activities \in InitialFeeds
    /\ activityTimers = {}

ActivityNext == \E type \in ActivityTypes : AddActivityCall(type)

ActivitySpec == ActivityInit /\ [][ActivityNext]_vars

\* The page from the moment the script has run: the global handlers are
\* registered, window.dashboard is not set until DOMContentLoaded.  The
\* events before DOMContentLoaded are taken at the clock reading of the
\* load, and the run is not followed in time.  The fields of the dashboard
\* hold the values the constructor will give them.
LoadInit ==
    /\ InitAt(LoadTime)
    /\ dashboardReady = FALSE
    /\ activities = <<>>
    /\ activityTimers = {}

LoadNext ==
    \/ DOMContentLoaded
    \/ CenterMap
    \/ \E hidden \in BOOLEAN : VisibilityChange(hidden)
    \/ \E type \in EmergencyTypes : ReportEmergency(type)
    \/ OpenEmergencyModal
    \/ CloseEmergencyModal
    \/ \E p \in Positions : WatchedPosition(p)

LoadSpec == LoadInit /\ [][LoadNext]_vars

-----------------------------------------------------------------------------
(* Vocabulary of the properties *)

\* The step is a run of the named callback.
SpeedSampleStep == nextSpeedAt' # nextSpeedAt
CheckSpeedStep == nextCheckAt' # nextCheckAt
PositionUpdateStep ==
    /\ lastOp' = "updateLocation"
    /\ UNCHANGED <<now, nextSpeedAt, nextCheckAt, dismissTimers, modalShown>>

\* The step is a run of the global acknowledgeSpeedWarning().
AcknowledgeStep == lastOp' = "acknowledgeSpeedWarning" /\ now' = now

\* The state of the speed monitor: fields, modal, status card, timers.
monitorState ==
    <<currentLocation, speedThreshold, currentSpeed, isInDangerZone,
      lastSpeedWarning, modalShown, speedWarningMessage, speedStatus,
      zoneType, dismissTimers>>

\* The three classes of a speed s against a limit T.
Classified(s, T) ==
    IF s > T THEN "Overspeed"
    ELSE IF 10 * s > 9 * T THEN "Warning"
    ELSE "Normal"

\* The step is a run of the error callback of the position watcher.
PositionErrorStep == lastOp' = "locationError" /\ notifCount' = notifCount + 1

\* The step is a run of addActivity.
AddActivityStep == activityCount' = activityCount + 1

\* The notification of a position error is on screen.
ErrorShown ==
    \E i \in 1..Len(notifications) :
        notifications[i].message = "Location tracking unavailable"

\* The names of the notifications in a container.
IdsOf(container) == {container[i].id : i \in 1..Len(container)}

\* The modal goes from hidden to shown / from shown to hidden in the step.
Raised == ~modalShown /\ modalShown'
Hidden == modalShown /\ ~modalShown'

\* loc is a position fix strictly less than radius away from centre.
Within(loc, centre, radius) ==
    /\ loc # NoLocation
    /\ calculateDistance(loc.lat, loc.lng, centre.lat, centre.lng) < radius

\* loc is a position fix exactly radius away from centre.
OnRadius(loc, centre, radius) ==
    /\ loc # NoLocation
    /\ calculateDistance(loc.lat, loc.lng, centre.lat, centre.lng) = radius

-----------------------------------------------------------------------------
(* Properties *)

\* C1: cooldown invariant.  The modal goes from hidden to shown only when at
\* least 30000 ms have passed since the previous hidden-to-shown transition.
C1_CooldownBetweenRaises ==
    [][(Raised /\ raisedAt # NoRaise) => now' - raisedAt >= warningCooldown]_vars

\* C2: threshold invariant.  speedThreshold is 25 exactly when the latest
\* position is inside the School Zone, 30 exactly when it is inside the
\* Construction Zone and not the School Zone, 60 otherwise (also before any
\* fix); and only a position update changes it.
C2_ThresholdFollowsZone ==
    /\ [](LET inSchool == Within(currentLocation, schoolZoneCenter, SchoolRadius)
              inConstruction ==
                  Within(currentLocation, constructionZoneCenter, ConstructionRadius)
          IN  /\ (speedThreshold = 25) <=> inSchool
              /\ (speedThreshold = 30) <=> (inConstruction /\ ~inSchool)
              /\ (speedThreshold = 60) <=> (~inSchool /\ ~inConstruction))
    /\ [][speedThreshold' # speedThreshold => PositionUpdateStep]_vars

\* C2 witness: checkSpeed has raised a warning while the latest fix, on the
\* radius of the School Zone and so inside no zone, leaves the limit at 60.
C2_Witness ==
    /\ lastOp = "checkSpeed"
    /\ modalShown
    /\ OnRadius(currentLocation, schoolZoneCenter, SchoolRadius)
    /\ speedThreshold = 60

\* C3: leaving ACTIVE.  The modal goes from shown to hidden only by an
\* acknowledgement or by the auto-hide timer of the warning on display, which
\* is due 10000 ms after that warning was raised.
C3_HiddenOnlyByAckOrOwnTimer ==
    [][Hidden => \/ lastOp' = "acknowledgeSpeedWarning"
                 \/ /\ lastOp' = "autoDismiss"
                    /\ now' = raisedAt + AutoHideDelay]_vars

\* C4: auto-dismiss bounded response.  A displayed warning has been on display
\* for at most 10000 ms, and a timer that hides it is pending and due no later
\* than 10000 ms after it was raised.
C4_ShownAtMostTenSeconds ==
    modalShown =>
        /\ now - raisedAt <= 10000
        /\ \E i \in 1..Len(dismissTimers) : dismissTimers[i] <= raisedAt + 10000

\* C4 witness: a warning nobody acknowledged has been on display for the full
\* 10000 ms, another showSpeedWarning call having come in meanwhile.
C4_Witness ==
    /\ modalShown
    /\ now = raisedAt + 10000
    /\ Len(dismissTimers) >= 2

\* C5: re-entering ACTIVE is a no-op.  With the modal shown, an overspeed
\* sample in updateSpeedDisplay or a checkSpeed leaves the modal, its message,
\* lastSpeedWarning and the pending auto-hide timers as they are.
C5_ReenterActiveNoOp ==
    [][(/\ modalShown
        /\ \/ SpeedSampleStep /\ currentSpeed' > speedThreshold
           \/ CheckSpeedStep)
       => UNCHANGED <<modalShown, speedWarningMessage, lastSpeedWarning,
                      dismissTimers>>]_vars

\* C6: speed classification.  Right after a speed update with sample s under
\* threshold T the status is Normal iff s <= 0.9 T, Warning iff
\* 0.9 T < s <= T, Overspeed iff s > T.
C6_Classification ==
    lastOp = "updateSpeedDisplay" =>
        /\ speedThreshold \in {25, 30, 60}
        /\ (speedStatus = "Normal") <=> (10 * currentSpeed <= 9 * speedThreshold)
        /\ (speedStatus = "Warning") <=>
               (9 * speedThreshold < 10 * currentSpeed /\ currentSpeed <= speedThreshold)
        /\ (speedStatus = "Overspeed") <=> (currentSpeed > speedThreshold)

\* C6 witness: a sample equal to the limit of the School Zone is a Warning.
C6_Witness ==
    /\ lastOp = "updateSpeedDisplay"
    /\ speedThreshold = 25
    /\ currentSpeed = 25
    /\ speedStatus = "Warning"

\* C7: zone selection.  Right after a position update the zone is the first of
\* School Zone (0.2 km), Construction Zone (0.15 km) whose centre is strictly
\* less than its radius away; a fix exactly on a radius is not in that zone.
C7_FirstZoneStrictlyInside ==
    lastOp = "updateLocation" =>
        LET inSchool == Within(currentLocation, schoolZoneCenter, 2000)
            inConstruction == Within(currentLocation, constructionZoneCenter, 1500)
        IN  /\ inSchool => zoneType = "School Zone" /\ speedThreshold = 25
            /\ (inConstruction /\ ~inSchool) =>
                   zoneType = "Construction Zone" /\ speedThreshold = 30
            /\ OnRadius(currentLocation, schoolZoneCenter, 2000) =>
                   zoneType # "School Zone"
            /\ OnRadius(currentLocation, constructionZoneCenter, 1500) =>
                   zoneType # "Construction Zone"

\* C7 witness: the latest fix is exactly 0.15 km from the Construction Zone
\* centre and the update has left the dashboard in no zone.
C7_Witness ==
    /\ lastOp = "updateLocation"
    /\ OnRadius(currentLocation, constructionZoneCenter, ConstructionRadius)
    /\ zoneType = "Normal Zone"

\* C8: leaving all zones resets the monitor.  A position update to a fix
\* outside both radii ends with no active zone, zone alert 'Normal Zone' and
\* threshold 60, whatever zone was active before.
C8_LeavingZonesResets ==
    [][(/\ PositionUpdateStep
        /\ ~Within(currentLocation', schoolZoneCenter, SchoolRadius)
        /\ ~Within(currentLocation', constructionZoneCenter, ConstructionRadius))
       => (~isInDangerZone' /\ zoneType' = "Normal Zone" /\ speedThreshold' = 60)]_vars

\* C8 witness: a warning raised under the School Zone limit is still on
\* display when a position update takes the dashboard out of every zone.
C8_Witness ==
    /\ lastOp = "updateLocation"
    /\ modalShown
    /\ speedWarningMessage.limit = SchoolLimit
    /\ ~isInDangerZone
    /\ zoneType = "Normal Zone"
    /\ speedThreshold = DefaultLimit

\* C9: cooldown on the check.  A checkSpeed at most 30000 ms after the
\* checkSpeed that last raised a warning, with the speed over the threshold,
\* raises nothing: no showSpeedWarning call, lastSpeedWarning unchanged.
C9_CheckWithinCooldownDeclines ==
    [][(/\ CheckSpeedStep
        /\ checkRaisedAt # NoRaise
        /\ now - checkRaisedAt <= 30000
        /\ currentSpeed > speedThreshold)
       => UNCHANGED <<lastSpeedWarning, modalShown, speedWarningMessage,
                      dismissTimers, raisedAt>>]_vars

\* C9 witness: checkSpeed has just run exactly 30000 ms after the checkSpeed
\* that raised the last warning, over the threshold and with the modal hidden,
\* and has raised nothing.
C9_Witness ==
    /\ lastOp = "checkSpeed"
    /\ nextCheckAt = now + CheckInterval
    /\ checkRaisedAt # NoRaise
    /\ now - checkRaisedAt = 30000
    /\ lastSpeedWarning = checkRaisedAt
    /\ currentSpeed > speedThreshold
    /\ ~modalShown

\* C10: re-arm after acknowledgement.  A checkSpeed run right after an
\* acknowledgement, more than 30000 ms after the checkSpeed that raised the
\* previous warning and with the speed over the threshold, raises a warning
\* and records its own time as lastSpeedWarning.
C10_RearmAfterAcknowledge ==
    [][(/\ CheckSpeedStep
        /\ lastOp = "acknowledgeSpeedWarning"
        /\ checkRaisedAt # NoRaise
        /\ now - checkRaisedAt > 30000
        /\ currentSpeed > speedThreshold)
       => (Raised /\ lastSpeedWarning' = now)]_vars

\* C10 witness: checkSpeed, run right after an acknowledgement and more than
\* 30000 ms after the warning it had raised before, has raised a new one.
C10_Witness ==
    /\ lastOp = "checkSpeed"
    /\ rearmedAfter = "acknowledgeSpeedWarning"
    /\ prevWarning > 0
    /\ now - prevWarning > 30000
    /\ lastSpeedWarning = now
    /\ modalShown

\* C11: a fresh monitor at the School Zone centre (limit 25) with speed 40.
\* The first warning check that finds the modal hidden raises a warning,
\* whatever the clock reads (the initial lastSpeedWarning never suppresses
\* it); a check 10000 ms after a raise does not raise; a check 31000 ms or
\* more after a raise raises again if the modal is hidden by then.
C11_FreshMonitorScenario ==
    [][(/\ CheckSpeedStep
        /\ Within(currentLocation, schoolZoneCenter, SchoolRadius)
        /\ currentSpeed = 40)
       => /\ (checkRaisedAt = NoRaise /\ ~modalShown)
                => (Raised /\ lastSpeedWarning' = now)
          /\ (checkRaisedAt # NoRaise /\ now - checkRaisedAt = 10000)
                => (~Raised /\ lastSpeedWarning' = lastSpeedWarning)
          /\ (checkRaisedAt # NoRaise /\ now - checkRaisedAt >= 31000
                                      /\ ~modalShown)
                => (Raised /\ lastSpeedWarning' = now)]_vars

\* C12: a warning check that declines (the speed is not over the threshold,
\* or the modal is shown, or at most 30000 ms passed since lastSpeedWarning)
\* changes nothing: lastSpeedWarning, the modal and its message, the
\* threshold, the speed, the zone flag and the pending timers stay as they
\* were.
C12_DeclinedCheckChangesNothing ==
    [][(/\ CheckSpeedStep
        /\ \/ currentSpeed <= speedThreshold
           \/ modalShown
           \/ now - lastSpeedWarning <= 30000)
       => UNCHANGED monitorState]_vars

\* A check has just declined only because the modal is shown: the speed is
\* over the threshold and no check has raised before.
C12_Witness ==
    /\ lastOp = "checkSpeed"
    /\ nextCheckAt = now + CheckInterval
    /\ modalShown
    /\ raisedAt < now
    /\ currentSpeed > speedThreshold
    /\ lastSpeedWarning = 0
    /\ now > 30000

\* C13: acknowledging hides the modal and leaves lastSpeedWarning, the
\* threshold, the speed, the zone flag and the location as they were; with
\* nothing shown it changes nothing, so a second call equals the first.
C13_AcknowledgeOnlyHides ==
    [][AcknowledgeStep
       => /\ ~modalShown'
          /\ UNCHANGED <<lastSpeedWarning, speedThreshold, currentSpeed,
                         isInDangerZone, currentLocation>>
          /\ ~modalShown => UNCHANGED monitorState]_vars

\* A warning raised by checkSpeed at this instant has been acknowledged, and
\* its time is still recorded.
C13_Witness ==
    /\ lastOp = "acknowledgeSpeedWarning"
    /\ ~modalShown
    /\ raisedAt = now
    /\ lastSpeedWarning = now

\* C15: lastSpeedWarning is the time of the latest hidden -> shown
\* transition of the modal, or 0 when there was none.
C15_LastWarningIsLatestRaise ==
    lastSpeedWarning = (IF raisedAt = NoRaise THEN 0 ELSE raisedAt)

\* C17 as stated: once a sample was taken, the displayed status is the class
\* of currentSpeed against the current threshold, in every state.
C17_StatusAlwaysCurrent ==
    speedStatus # "unset"
        => speedStatus = Classified(currentSpeed, speedThreshold)

\* C17 amended: the displayed status is the class of the sample against the
\* threshold at the moment of the speed update, and it changes at speed
\* updates only: a position update that changes the threshold leaves the
\* status as it was until the next sample.
C17_StatusCurrentAtSample ==
    [][/\ SpeedSampleStep
          => speedStatus' = Classified(currentSpeed', speedThreshold')
       /\ ~SpeedSampleStep => speedStatus' = speedStatus]_vars

\* A position update has moved the threshold under a sample of 40: the
\* status still says Normal although 40 is over the limit of 25.
C17_Witness ==
    /\ lastOp = "updateLocation"
    /\ currentSpeed = 40
    /\ speedThreshold = 25
    /\ speedStatus = "Normal"

C14_PositionErrorIsNoUpdate ==
    [][/\ PositionErrorStep
          => /\ UNCHANGED <<currentLocation, isInDangerZone, speedThreshold,
                            currentSpeed, lastSpeedWarning, modalShown,
                            speedWarningMessage, dismissTimers, nextSpeedAt,
                            nextCheckAt>>
             /\ Len(notifications') = Len(notifications) + 1
       /\ (PositionUpdateStep /\ ErrorShown /\ currentLocation' # currentLocation)
          => /\ currentLocation' # NoLocation
             /\ Within(currentLocation', schoolZoneCenter, SchoolRadius)
                   => (speedThreshold' = 25 /\ isInDangerZone'
                       /\ zoneType' = "School Zone")
       /\ (SpeedSampleStep /\ ErrorShown)
          => /\ currentSpeed' \in MinSpeed..MaxSpeed
             /\ speedStatus' = Classified(currentSpeed', speedThreshold')
             /\ currentSpeed' > speedThreshold' => modalShown']_vars

\* A position fix has been processed after a position error whose
\* notification is still on screen: the vehicle is in the School Zone.
C14_Witness ==
    /\ lastOp = "updateLocation"
    /\ ErrorShown
    /\ Within(currentLocation, schoolZoneCenter, SchoolRadius)
    /\ speedThreshold = 25
    /\ zoneType = "School Zone"

\* C16: reportEmergency(type) runs to completion for every type: it sets
\* emergencyReported, closes the emergency modal, shows a success
\* notification and puts an 'emergency' entry first in the activity feed,
\* without an error; emergencyReported is never true with nothing announced.
C16_EmergencyReportCompletes ==
    /\ "TypeError" \notin thrown
    /\ emergencyReported => emergencyAnnounced
    /\ lastOp = "reportEmergency"
          => /\ emergencyReported
             /\ ~emergencyModalShown
             /\ \E i \in 1..Len(notifications) : notifications[i].type = "success"
             /\ activities # <<>>
             /\ Head(activities).type = "emergency"

\* C19: after every addActivity the feed holds at most 5 entries, the new
\* entry is first, and the entries behind it are the first entries of the
\* old feed in their old order: only entries at the end are dropped.
C19_BoundedActivityFeed ==
    [][AddActivityStep
       => /\ Len(activities') <= 5
          /\ Len(activities') >= 1
          /\ activities'[1].n = activityCount'
          /\ Len(activities') - 1 <= Len(activities)
          /\ \A i \in 2..Len(activities') : activities'[i] = activities[i - 1]]_vars

\* Six calls were made: the entry of the first call has been dropped from the
\* end, the entries of the last five calls are left, newest first.
C19_Witness ==
    /\ lastOp = "addActivity"
    /\ activityCount = 6
    /\ Len(activities) = 5
    /\ activities[1].n = 6
    /\ activities[5].n = 2

\* C20: every notification leaves the container once, duration + 300 ms
\* after it was added (5000 + 300 ms for the calls without a duration),
\* whatever other notifications come and go; none stays longer, and no
\* removal is attempted on an element that is not in the container.
C20_NotificationLifecycle ==
    /\ []("NotFoundError" \notin thrown)
    /\ [](\A i \in 1..Len(notifications) :
             /\ now <= notifications[i].added + notifications[i].duration + 300
             /\ notifications[i].type \in {"warning", "info"}
                   => notifications[i].duration = 5000
             /\ \A j \in 1..Len(notifications) :
                   notifications[i].id = notifications[j].id => i = j)
    /\ [][/\ \A i \in 1..Len(notifications) :
                notifications[i].id \notin IdsOf(notifications')
                    => now = notifications[i].added
                                 + notifications[i].duration + 300
          /\ IdsOf(notifications') \ IdsOf(notifications)
                \subseteq {notifCount + 1}]_vars

\* The first notification has just been removed while the second, added
\* later, is still in the container.
C20_Witness ==
    /\ lastOp = "notificationRemove"
    /\ notifications # <<>>
    /\ notifications[1].id = 2
    /\ thrown = {}

\* C21: whatever the order of Ctrl + M / the centre-map button, visibility
\* changes and emergency reports relative to DOMContentLoaded, no handler
\* reads a property of an undefined window.dashboard; and a centerMap with
\* no location available leaves the notification 'Location not available'.
C21_HandlersTolerateNoDashboard ==
    /\ UndefinedDashboard \notin thrown
    /\ (lastOp = "centerMap" /\ currentLocation = NoLocation)
          => \E i \in 1..Len(notifications) :
                 notifications[i].message = "Location not available"

====
